---- MODULE Spec2Model ----
(***************************************************************************)
(* DuckLens retail pipeline: ingestion (01_ingestion.py), the cleaning     *)
(* stage (01_cleaning.py), the transformation core (02_transform.py) and   *)
(* the star-schema loader (03_loading.py) as a state machine over          *)
(* dataframes and database tables.  A dataframe is a sequence of rows, a   *)
(* row is a record of its columns.  Numbers are exact rationals <<n, d>>   *)
(* extended with the                                                       *)
(* IEEE special values NaN and +/-inf that numpy produces; text is a       *)
(* sequence of one-character strings.                                      *)
(***************************************************************************)
EXTENDS Integers, Sequences, FiniteSets, TLC

VARIABLES
    stg,         \* staging.stg_sales_raw as read by load_from_staging
    df_cleaned,  \* the dataframe returned by clean_data, argument of main
    df,          \* the dataframe the transformation passes hand on
    enriched,    \* the dataframes returned by the completed runs of main
    pc,          \* the next step of the pipeline
    xlsx,        \* the rows of the spreadsheet the ingestion reads
    dw,          \* the committed tables of the warehouse schema dw
    tx,          \* the tables as the open connection sees them, uncommitted work included
    conn,        \* the database connection of the running stage
    runs         \* how the runs of the ingestion or loading stage ended, in order

\* The database side of the state, which cleaning and transformation leave alone.
db == <<xlsx, dw, tx, conn, runs>>

vars == <<stg, df_cleaned, df, enriched, pc, xlsx, dw, tx, conn, runs>>

(***************************************************************************)
(* Bounds of the model.                                                    *)
(***************************************************************************)
MaxRows == 3
MaxRuns == 2

(***************************************************************************)
(* Floating point numbers: <<n, d>> with d > 0 in lowest terms is the      *)
(* rational n/d; d = 0 encodes the special values.                         *)
(***************************************************************************)
NaN == <<0, 0>>
PosInf == <<1, 0>>
NegInf == <<-1, 0>>

Num(n) == <<n, 1>>

IsFinite(x) == x[2] # 0

isna(x) == x = NaN

AbsInt(n) == IF n < 0 THEN -n ELSE n

SignInt(n) == IF n < 0 THEN -1 ELSE IF n > 0 THEN 1 ELSE 0

RECURSIVE GCD(_, _)
GCD(a, b) == IF b = 0 THEN a ELSE GCD(b, a % b)

\* The rational n/d for integers n and d # 0, in lowest terms.
Frac(n, d) ==
    LET g == GCD(AbsInt(n), AbsInt(d))
        s == SignInt(d)
    IN  <<(s * n) \div g, (s * d) \div g>>

SignOf(x) == SignInt(x[1])

float_add(x, y) ==
    IF isna(x) \/ isna(y) THEN NaN
    ELSE IF ~IsFinite(x) /\ ~IsFinite(y) THEN (IF x = y THEN x ELSE NaN)
    ELSE IF ~IsFinite(x) THEN x
    ELSE IF ~IsFinite(y) THEN y
    ELSE Frac(x[1] * y[2] + y[1] * x[2], x[2] * y[2])

float_neg(x) == <<-x[1], x[2]>>

float_sub(x, y) == float_add(x, float_neg(y))

float_mul(x, y) ==
    IF isna(x) \/ isna(y) THEN NaN
    ELSE IF ~IsFinite(x) \/ ~IsFinite(y)
         THEN (IF SignOf(x) * SignOf(y) = 0 THEN NaN
               ELSE <<SignOf(x) * SignOf(y), 0>>)
    ELSE Frac(x[1] * y[1], x[2] * y[2])

\* numpy division: x/0 is +/-inf or NaN (with a RuntimeWarning), never an
\* exception.
float_div(x, y) ==
    IF isna(x) \/ isna(y) THEN NaN
    ELSE IF ~IsFinite(x) /\ ~IsFinite(y) THEN NaN
    ELSE IF ~IsFinite(x) THEN <<SignOf(x) * (IF SignOf(y) < 0 THEN -1 ELSE 1), 0>>
    ELSE IF ~IsFinite(y) THEN Num(0)
    ELSE IF y[1] = 0 THEN <<SignOf(x), 0>>
    ELSE Frac(x[1] * y[2], x[2] * y[1])

float_abs(x) == <<AbsInt(x[1]), x[2]>>

\* x > y; every comparison with NaN is False.
gt(x, y) ==
    IF isna(x) \/ isna(y) THEN FALSE
    ELSE IF x = y THEN FALSE
    ELSE IF x = PosInf \/ y = NegInf THEN TRUE
    ELSE IF x = NegInf \/ y = PosInf THEN FALSE
    ELSE x[1] * y[2] > y[1] * x[2]

lt(x, y) == gt(y, x)

ge(x, y) == ~isna(x) /\ ~isna(y) /\ (x = y \/ gt(x, y))

le(x, y) == ge(y, x)

\* np.where(cond, a, b) for one row: both branches are computed, one is kept.
np_where(cond, a, b) == IF cond THEN a ELSE b

fillna(x, v) == IF isna(x) THEN v ELSE x

RECURSIVE float_sum(_)
float_sum(s) == IF s = <<>> THEN Num(0) ELSE float_add(Head(s), float_sum(Tail(s)))

\* Series.mean(): NaN entries are skipped; the mean of no value is NaN.
mean(s) ==
    LET v == SelectSeq(s, LAMBDA x : ~isna(x))
    IN  IF v = <<>> THEN NaN ELSE float_div(float_sum(v), Num(Len(v)))

RECURSIVE SeqToSet(_)
SeqToSet(s) == IF s = <<>> THEN {} ELSE {Head(s)} \cup SeqToSet(Tail(s))

(***************************************************************************)
(* Text: a sequence of one-character strings.  A date is a one-element     *)
(* sequence holding its day.  None is the missing value of an object       *)
(* column, NaT the missing date.                                           *)
(***************************************************************************)
None == <<"None">>
NaT == <<"NaT">>

isnull(v) == v = None \/ v = NaT

LowerCase == <<"a", "b", "c", "d", "e", "f", "g", "h", "i", "j", "k", "l", "m",
               "n", "o", "p", "q", "r", "s", "t", "u", "v", "w", "x", "y", "z">>
UpperCase == <<"A", "B", "C", "D", "E", "F", "G", "H", "I", "J", "K", "L", "M",
               "N", "O", "P", "Q", "R", "S", "T", "U", "V", "W", "X", "Y", "Z">>

Letters == 1..Len(LowerCase)

ToUpper == [c \in {LowerCase[i] : i \in Letters} |->
               UpperCase[CHOOSE i \in Letters : LowerCase[i] = c]]

ToLower == [c \in {UpperCase[i] : i \in Letters} |->
               LowerCase[CHOOSE i \in Letters : UpperCase[i] = c]]

LowerLetters == DOMAIN ToUpper

UpperLetters == DOMAIN ToLower

isalpha(c) == c \in LowerLetters \/ c \in UpperLetters

upper_char(c) == IF c \in LowerLetters THEN ToUpper[c] ELSE c

lower_char(c) == IF c \in UpperLetters THEN ToLower[c] ELSE c

astype_str(v) == IF v = None THEN <<"N", "o", "n", "e">> ELSE v

RECURSIVE lstrip(_)
lstrip(s) == IF s # <<>> /\ Head(s) = " " THEN lstrip(Tail(s)) ELSE s

RECURSIVE rstrip(_)
rstrip(s) == IF s # <<>> /\ s[Len(s)] = " " THEN rstrip(SubSeq(s, 1, Len(s) - 1)) ELSE s

strip(s) == rstrip(lstrip(s))

upper(s) == [i \in 1..Len(s) |-> upper_char(s[i])]

lower(s) == [i \in 1..Len(s) |-> lower_char(s[i])]

\* str.title(): a cased character is upper-cased when it starts a word (follows
\* an uncased character) and lower-cased otherwise.
title(s) ==
    [i \in 1..Len(s) |->
        IF i = 1 \/ ~isalpha(s[i - 1]) THEN upper_char(s[i]) ELSE lower_char(s[i])]

\* str.contains(pat, case=False): pat occurs as a substring, case ignored.
contains_nocase(s, pat) ==
    LET t == lower(s)
        p == lower(pat)
    IN  \E i \in 1..(Len(t) - Len(p) + 1) : SubSeq(t, i, i + Len(p) - 1) = p

(***************************************************************************)
(* Dataframes.                                                             *)
(***************************************************************************)
\* df[col] = value: the row with column col set, added when it is new.
assign(r, col, v) == [c \in (DOMAIN r) \cup {col} |-> IF c = col THEN v ELSE r[c]]

\* df.drop(columns=cols) for one row.
drop(r, cols) == [c \in (DOMAIN r) \ cols |-> r[c]]

key_of(r, on) == [c \in on |-> r[c]]

column(d, col) == [i \in 1..Len(d) |-> d[i][col]]

\* The distinct keys of d, in the order of their first row.
RECURSIVE unique_keys(_, _)
unique_keys(d, on) ==
    IF d = <<>> THEN <<>>
    ELSE LET rest == unique_keys(SubSeq(d, 1, Len(d) - 1), on)
             k == key_of(d[Len(d)], on)
         IN  IF \E i \in 1..Len(rest) : rest[i] = k THEN rest ELSE Append(rest, k)

rows_with_key(d, on, k) == SelectSeq(d, LAMBDA r : key_of(r, on) = k)

\* df.groupby(on)[col].agg().rename(out): one row per distinct key.  pandas
\* sorts the keys; a left merge gives the same result for every order of the
\* (unique) keys, so the order of first appearance is used.
\* Series.nunique(): the number of distinct values, missing ones not counted.
nunique(s) == Num(Cardinality(SeqToSet(s) \ {NaT}))

\* Series.count(): the number of values, missing ones not counted.
count(s) == Num(Len(SelectSeq(s, LAMBDA v : v # NaT)))

\* The aggregation named agg of the values s of one group.
aggregate(agg, s) ==
    CASE agg = "mean" -> mean(s)
      [] agg = "nunique" -> nunique(s)
      [] agg = "count" -> count(s)

groupby(d, on, col, out, agg) ==
    LET ks == unique_keys(d, on)
    IN  [i \in 1..Len(ks) |->
            assign(ks[i], out, aggregate(agg, column(rows_with_key(d, on, ks[i]), col)))]

\* left.merge(right, on=on, how='left') where right carries the column col
\* besides its keys: every left row, in order, once per matching right row,
\* and once with NaN when no right row matches.
\* how='inner': the left rows without a match are dropped.
RECURSIVE merge_inner(_, _, _, _)
merge_inner(left, right, on, col) ==
    IF left = <<>> THEN <<>>
    ELSE LET l == Head(left)
             m == rows_with_key(right, on, key_of(l, on))
         IN  [i \in 1..Len(m) |-> assign(l, col, m[i][col])]
                 \o merge_inner(Tail(left), right, on, col)

RECURSIVE merge(_, _, _, _)
merge(left, right, on, col) ==
    IF left = <<>> THEN <<>>
    ELSE LET l == Head(left)
             m == rows_with_key(right, on, key_of(l, on))
             out == IF m = <<>> THEN <<assign(l, col, NaN)>>
                    ELSE [i \in 1..Len(m) |-> assign(l, col, m[i][col])]
         IN  out \o merge(Tail(left), right, on, col)

\* df.drop_duplicates(subset=on, keep='first')
RECURSIVE drop_duplicates(_, _)
drop_duplicates(d, on) ==
    IF d = <<>> THEN <<>>
    ELSE LET rest == drop_duplicates(SubSeq(d, 1, Len(d) - 1), on)
             r == d[Len(d)]
         IN  IF \E i \in 1..(Len(d) - 1) : key_of(d[i], on) = key_of(r, on)
             THEN rest ELSE Append(rest, r)

(***************************************************************************)
(* Stage 1: clean_data.                                                    *)
(***************************************************************************)
\* The division done for every quantity but 0.
unit_price_nonzero(r) ==
    np_where(r.quantity # Num(0), float_div(r.total_sales, r.quantity), Num(0))

unit_price(r) ==
    np_where(gt(r.quantity, Num(0)), float_div(r.total_sales, r.quantity), Num(0))

text_columns == {"store_name", "sub_department", "section", "supplier"}

standardize(r) ==
    [c \in DOMAIN r |->
        IF c \in text_columns THEN title(strip(astype_str(r[c])))
        ELSE IF c = "item_code" THEN upper(strip(astype_str(r[c])))
        ELSE r[c]]

\* The missing critical fields lowering only the rows still flagged high.
data_quality_flag_keeping_medium(r) ==
    LET negative_qty == lt(r.quantity, Num(0))
        negative_sales == lt(r.total_sales, Num(0))
        f1 == IF negative_qty \/ negative_sales THEN "low" ELSE "high"
        missing_rrp == isna(r.rrp) \/ le(r.rrp, Num(0))
        f2 == IF missing_rrp /\ f1 = "high" THEN "medium" ELSE f1
        rrp_deviation == float_div(float_abs(float_sub(r.unit_price, r.rrp)), r.rrp)
        high_deviation == gt(rrp_deviation, <<1, 2>>) /\ gt(r.rrp, Num(0))
        f3 == IF high_deviation /\ f2 = "high" THEN "medium" ELSE f2
        critical_missing ==
            r.store_name = <<>> \/ r.item_code = <<>> \/ isnull(r.date_of_sale)
    IN  IF critical_missing /\ f3 = "high" THEN "low" ELSE f3

data_quality_flag(r) ==
    LET negative_qty == lt(r.quantity, Num(0))
        negative_sales == lt(r.total_sales, Num(0))
        f1 == IF negative_qty \/ negative_sales THEN "low" ELSE "high"
        missing_rrp == isna(r.rrp) \/ le(r.rrp, Num(0))
        f2 == IF missing_rrp /\ f1 = "high" THEN "medium" ELSE f1
        rrp_deviation == float_div(float_abs(float_sub(r.unit_price, r.rrp)), r.rrp)
        high_deviation == gt(rrp_deviation, <<1, 2>>) /\ gt(r.rrp, Num(0))
        f3 == IF high_deviation /\ f2 = "high" THEN "medium" ELSE f2
        missing_store == r.store_name = <<>>
        missing_item == r.item_code = <<>>
        missing_date == isnull(r.date_of_sale)
        critical_missing == missing_store \/ missing_item \/ missing_date
    IN  IF critical_missing THEN "low" ELSE f3

duplicate_cols == {"store_name", "item_code", "date_of_sale"}

\* pd.to_datetime(errors='coerce') of a column of dates: a date becomes the
\* timestamp of its midnight, a timestamp stays, what is no date becomes NaT.
Midnight == "00:00:00"

to_datetime(v) ==
    IF isnull(v) THEN NaT
    ELSE IF Len(v) = 1 THEN Append(v, Midnight)
    ELSE v

\* The duplicates removed on the raw text, before it is standardised.
clean_data_dedupe_first(d) ==
    LET deduped == drop_duplicates(d, duplicate_cols)
        priced == [i \in 1..Len(deduped) |->
                      assign(deduped[i], "unit_price", unit_price(deduped[i]))]
        texted == [i \in 1..Len(deduped) |-> standardize(priced[i])]
        flagged == [i \in 1..Len(deduped) |->
                       assign(texted[i], "data_quality_flag", data_quality_flag(texted[i]))]
    IN  [i \in 1..Len(flagged) |->
            assign(flagged[i], "date_of_sale", to_datetime(flagged[i].date_of_sale))]

clean_data(d) ==
    LET priced == [i \in 1..Len(d) |-> assign(d[i], "unit_price", unit_price(d[i]))]
        texted == [i \in 1..Len(d) |-> standardize(priced[i])]
        flagged == [i \in 1..Len(d) |->
                       assign(texted[i], "data_quality_flag", data_quality_flag(texted[i]))]
        deduped == drop_duplicates(flagged, duplicate_cols)
    IN  [i \in 1..Len(deduped) |->
            assign(deduped[i], "date_of_sale", to_datetime(deduped[i].date_of_sale))]

(***************************************************************************)
(* Stage 2: the four enrichment passes.                                    *)
(***************************************************************************)
PROMO_MIN_DISCOUNT_PCT == <<1, 10>>
PROMO_MIN_DAYS == 2

\* The discount computed whatever the RRP.
discount_pct_unguarded(r) == float_div(float_sub(r.rrp, r.unit_price), r.rrp)

discount_pct(r) ==
    np_where(gt(r.rrp, Num(0)),
             float_div(float_sub(r.rrp, r.unit_price), r.rrp),
             Num(0))

is_promo_candidate(r) == ge(r.discount_pct, PROMO_MIN_DISCOUNT_PCT)

\* Lines 36-43: the two columns written before the merge.
with_candidates(d) ==
    LET disc == [i \in 1..Len(d) |-> assign(d[i], "discount_pct", discount_pct(d[i]))]
    IN  [i \in 1..Len(d) |->
            assign(disc[i], "is_promo_candidate", is_promo_candidate(disc[i]))]

promo_days_counting_rows(d) ==
    groupby(SelectSeq(d, LAMBDA r : r.is_promo_candidate),
            {"item_code"}, "date_of_sale", "promo_days_count", "count")

promo_days(d) ==
    groupby(SelectSeq(d, LAMBDA r : r.is_promo_candidate),
            {"item_code"}, "date_of_sale", "promo_days_count", "nunique")

is_promo_more_days(r) == r.is_promo_candidate /\ gt(r.promo_days_count, Num(PROMO_MIN_DAYS))

is_promo(r) == r.is_promo_candidate /\ ge(r.promo_days_count, Num(PROMO_MIN_DAYS))

\* The promo days counted per item and store.
detect_promos_per_store(d) ==
    LET cand == with_candidates(d)
        days == groupby(SelectSeq(cand, LAMBDA r : r.is_promo_candidate),
                        {"item_code", "store_name"}, "date_of_sale",
                        "promo_days_count", "nunique")
        merged == merge(cand, days, {"item_code", "store_name"}, "promo_days_count")
        filled == [i \in 1..Len(merged) |->
                      assign(merged[i], "promo_days_count",
                             fillna(merged[i].promo_days_count, Num(0)))]
        flagged == [i \in 1..Len(filled) |->
                       assign(filled[i], "is_promo", is_promo(filled[i]))]
    IN  [i \in 1..Len(flagged) |-> drop(flagged[i], {"is_promo_candidate"})]

detect_promos(d) ==
    LET cand == with_candidates(d)
        merged == merge(cand, promo_days(cand), {"item_code"}, "promo_days_count")
        filled == [i \in 1..Len(merged) |->
                      assign(merged[i], "promo_days_count",
                             fillna(merged[i].promo_days_count, Num(0)))]
        flagged == [i \in 1..Len(filled) |->
                       assign(filled[i], "is_promo", is_promo(filled[i]))]
    IN  [i \in 1..Len(flagged) |-> drop(flagged[i], {"is_promo_candidate"})]

\* The columns of lines 36-43 written into the argument itself.
detect_promos_arg_no_copy(d) == with_candidates(d)

\* The dataframe the caller passed, after detect_promos returned: line 33
\* rebinds df to a copy before any column is written, so the argument keeps
\* its content.
detect_promos_arg(d) == d

\* The baseline taken over every row of the item, promo rows included.
baseline_all_rows(d) == groupby(d, {"item_code"}, "quantity", "baseline_units", "mean")

baseline(d) ==
    groupby(SelectSeq(d, LAMBDA r : ~r.is_promo),
            {"item_code"}, "quantity", "baseline_units", "mean")

promo_avg(d) ==
    groupby(SelectSeq(d, LAMBDA r : r.is_promo),
            {"item_code"}, "quantity", "promo_avg_units", "mean")

baseline_fill_zero(r) == fillna(r.baseline_units, Num(0))

baseline_fill(r) == fillna(r.baseline_units, r.quantity)

promo_avg_fill(r) == fillna(r.promo_avg_units, Num(0))

promo_uplift_pct_unguarded(r) ==
    np_where(r.is_promo,
             float_mul(float_div(float_sub(r.promo_avg_units, r.baseline_units),
                                 r.baseline_units),
                       Num(100)),
             Num(0))

promo_uplift_pct(r) ==
    np_where(gt(r.baseline_units, Num(0)) /\ r.is_promo,
             float_mul(float_div(float_sub(r.promo_avg_units, r.baseline_units),
                                 r.baseline_units),
                       Num(100)),
             Num(0))

\* The missing quantities set to 0 before the averages are taken.
calculate_uplift_fill_quantity(d) ==
    LET q == [i \in 1..Len(d) |-> assign(d[i], "quantity", fillna(d[i].quantity, Num(0)))]
        m1 == merge(q, baseline(q), {"item_code"}, "baseline_units")
        m2 == merge(m1, promo_avg(q), {"item_code"}, "promo_avg_units")
        f1 == [i \in 1..Len(m2) |-> assign(m2[i], "baseline_units", baseline_fill(m2[i]))]
        f2 == [i \in 1..Len(f1) |-> assign(f1[i], "promo_avg_units", promo_avg_fill(f1[i]))]
    IN  [i \in 1..Len(f2) |-> assign(f2[i], "promo_uplift_pct", promo_uplift_pct(f2[i]))]

calculate_uplift(d) ==
    LET m1 == merge(d, baseline(d), {"item_code"}, "baseline_units")
        m2 == merge(m1, promo_avg(d), {"item_code"}, "promo_avg_units")
        f1 == [i \in 1..Len(m2) |-> assign(m2[i], "baseline_units", baseline_fill(m2[i]))]
        f2 == [i \in 1..Len(f1) |-> assign(f1[i], "promo_avg_units", promo_avg_fill(f1[i]))]
    IN  [i \in 1..Len(f2) |-> assign(f2[i], "promo_uplift_pct", promo_uplift_pct(f2[i]))]

Bidco == <<"B", "i", "d", "c", "o">>

\* The literal matched with its case.
is_bidco_case_sensitive(r) ==
    \E i \in 1..(Len(r.supplier) - Len(Bidco) + 1) :
        SubSeq(r.supplier, i, i + Len(Bidco) - 1) = Bidco

is_bidco(r) == contains_nocase(r.supplier, Bidco)

groupby_cols == {"sub_department", "section", "store_name"}

\* The average over the rows of the other suppliers only.
avg_prices_competitors(d) ==
    groupby(SelectSeq(d, LAMBDA r : ~r.is_bidco),
            groupby_cols, "unit_price", "group_avg_price", "mean")

\* The average over the non-promo rows once the detector has run.
avg_prices_of_non_promo(d) ==
    IF d # <<>> /\ "is_promo" \in DOMAIN d[1]
    THEN groupby(SelectSeq(d, LAMBDA r : ~r.is_promo),
                 groupby_cols, "unit_price", "group_avg_price", "mean")
    ELSE groupby(d, groupby_cols, "unit_price", "group_avg_price", "mean")

avg_prices(d) == groupby(d, groupby_cols, "unit_price", "group_avg_price", "mean")

\* The group average divided by the unit price.
price_index_vs_comp_inverted(r) ==
    np_where(gt(r.group_avg_price, Num(0)),
             float_div(r.group_avg_price, r.unit_price),
             Num(1))

price_index_vs_comp_nonzero(r) ==
    np_where(r.group_avg_price # Num(0),
             float_div(r.unit_price, r.group_avg_price),
             Num(1))

price_index_vs_comp(r) ==
    np_where(gt(r.group_avg_price, Num(0)),
             float_div(r.unit_price, r.group_avg_price),
             Num(1))

calculate_price_index(d) ==
    LET b == [i \in 1..Len(d) |-> assign(d[i], "is_bidco", is_bidco(d[i]))]
        m == merge(b, avg_prices(b), groupby_cols, "group_avg_price")
    IN  [i \in 1..Len(m) |-> assign(m[i], "price_index_vs_comp", price_index_vs_comp(m[i]))]

\* The stores that have a promo row.
total_stores_with_promo(d) ==
    nunique(column(SelectSeq(d, LAMBDA r : r.is_promo), "store_name"))

total_stores(d) == nunique(column(d, "store_name"))

\* The promo rows of the item counted, not its stores.
promo_coverage_counting_rows(d) ==
    groupby(SelectSeq(d, LAMBDA r : r.is_promo),
            {"item_code"}, "store_name", "promo_store_count", "count")

promo_coverage(d) ==
    groupby(SelectSeq(d, LAMBDA r : r.is_promo),
            {"item_code"}, "store_name", "promo_store_count", "nunique")

promo_coverage_pct(r, total) ==
    float_mul(float_div(r.promo_store_count, total), Num(100))

calculate_promo_coverage(d) ==
    LET m == merge(d, promo_coverage(d), {"item_code"}, "promo_store_count")
        f == [i \in 1..Len(m) |->
                 assign(m[i], "promo_store_count", fillna(m[i].promo_store_count, Num(0)))]
    IN  [i \in 1..Len(f) |->
            assign(f[i], "promo_coverage_pct", promo_coverage_pct(f[i], total_stores(d)))]

(***************************************************************************)
(* Stage 3: the star-schema loader.  A table is the sequence of its rows   *)
(* in insertion order; a serial id is the position of the row.  The        *)
(* columns item_barcode, description, category and department, which the   *)
(* dataframes of this model do not carry, are left out of dim_item, and    *)
(* the calendar fields derived from full_date out of dim_date.             *)
(***************************************************************************)
\* conn.commit() and conn.rollback(): the committed tables afterwards, given
\* the committed tables and the ones the transaction has written to.
commit_nothing(committed, pending) == committed

commit(committed, pending) == pending

rollback_keeping(committed, pending) == pending

rollback(committed, pending) == committed

\* INSERT without ON CONFLICT clause.
insert_always(table, row, key) == Append(table, row)

\* INSERT ... ON CONFLICT (key) DO NOTHING, and the SELECT-then-INSERT of
\* load_dimension_items: the row is added unless a row has its key.
insert_on_conflict_do_nothing(table, row, key) ==
    IF \E i \in 1..Len(table) : table[i][key] = row[key] THEN table
    ELSE Append(table, row)

\* The rows inserted one by one, each taking the next serial id when the
\* table has an id column idcol.
RECURSIVE insert_rows(_, _, _, _)
insert_rows(table, rows, key, idcol) ==
    IF rows = <<>> THEN table
    ELSE LET row == IF idcol = "" THEN Head(rows)
                    ELSE assign(Head(rows), idcol, Len(table) + 1)
         IN  insert_rows(insert_on_conflict_do_nothing(table, row, key),
                         Tail(rows), key, idcol)

load_dimension_stores(d, t) ==
    LET stores == unique_keys(d, {"store_name"})
    IN  [t EXCEPT !.dim_store = insert_rows(@, stores, "store_name", "store_id")]

load_dimension_suppliers(d, t) ==
    LET suppliers == unique_keys(d, {"supplier"})
        rows == [i \in 1..Len(suppliers) |-> [supplier_name |-> suppliers[i].supplier]]
    IN  [t EXCEPT !.dim_supplier = insert_rows(@, rows, "supplier_name", "supplier_id")]

\* strftime('%Y%m%d') of a day, and int() of its result.
Ymd == [d \in {"2024-01-01", "2024-01-02"} |->
           IF d = "2024-01-01" THEN "20240101" ELSE "20240102"]

int_of_digits == [t \in {"20240101", "20240102"} |->
                     IF t = "20240101" THEN 20240101 ELSE 20240102]

strftime(ts) == Ymd[ts[1]]

\* NaT.strftime raises ValueError: a dataframe with a missing date stops
\* load_dimension_dates.
load_dimension_dates_raises(d) == \E i \in 1..Len(d) : d[i].date_of_sale = NaT

load_dimension_dates(d, t) ==
    LET dates == unique_keys(d, {"date_of_sale"})
        rows == [i \in 1..Len(dates) |->
                    [date_id |-> int_of_digits[strftime(dates[i].date_of_sale)],
                     full_date |-> dates[i].date_of_sale[1]]]
    IN  [t EXCEPT !.dim_date = insert_rows(@, rows, "date_id", "")]

load_dimension_items(d, t) ==
    LET items == drop_duplicates(d, {"item_code"})
        rows == [i \in 1..Len(items) |->
                    key_of(items[i], {"item_code", "sub_department", "section", "is_bidco"})]
    IN  [t EXCEPT !.dim_item = insert_rows(@, rows, "item_code", "item_id")]

\* Series.map(dict) of one value, the dict built from the rows of a dimension
\* table (a later row replaces an earlier one with the same key): the id as a
\* float, NaN when the key is not in the table.
map_fk(table, key, idcol, v) ==
    LET hits == {i \in 1..Len(table) : table[i][key] = v}
    IN  IF hits = {} THEN NaN
        ELSE Num(table[CHOOSE i \in hits : \A j \in hits : j <= i][idcol])

\* The column TO_CHAR(full_date, 'YYYYMMDD') added to dim_date.
date_map_rows(table) ==
    [i \in 1..Len(table) |-> assign(table[i], "date_str", Ymd[table[i].full_date])]

\* Lines 187-193: the columns load_fact_sales writes into the dataframe it was
\* given.
with_fks(d, t) ==
    [i \in 1..Len(d) |->
        LET r == d[i]
            date_id_str == IF r.date_of_sale = NaT THEN "NaN" ELSE strftime(r.date_of_sale)
        IN  [c \in DOMAIN r \cup {"date_id_str", "store_fk", "supplier_fk", "date_fk", "item_fk"} |->
                CASE c = "date_id_str" -> date_id_str
                  [] c = "store_fk" -> map_fk(t.dim_store, "store_name", "store_id", r.store_name)
                  [] c = "supplier_fk" ->
                         map_fk(t.dim_supplier, "supplier_name", "supplier_id", r.supplier)
                  [] c = "date_fk" ->
                         map_fk(date_map_rows(t.dim_date), "date_str", "date_id", date_id_str)
                  [] c = "item_fk" -> map_fk(t.dim_item, "item_code", "item_id", r.item_code)
                  [] OTHER -> r[c]]]

\* df.dropna(subset=[the four keys])
df_valid(d) ==
    SelectSeq(d, LAMBDA r : ~isna(r.store_fk) /\ ~isna(r.supplier_fk)
                              /\ ~isna(r.date_fk) /\ ~isna(r.item_fk))

\* int(x) of a float: the fraction is cut off; NaN raises ValueError.
int(x) == SignOf(x) * (AbsInt(x[1]) \div x[2])

\* NULL in a numeric column of the fact table.
SqlNull == <<0, -1>>

fact_records_raises(d) == \E i \in 1..Len(d) : ~IsFinite(d[i].quantity)

fact_record(r) ==
    [store_id |-> int(r.store_fk), item_id |-> int(r.item_fk),
     supplier_id |-> int(r.supplier_fk), date_id |-> int(r.date_fk),
     quantity |-> int(r.quantity), total_sales |-> r.total_sales, rrp |-> r.rrp,
     unit_price |-> r.unit_price,
     discount_pct |-> IF ~isna(r.discount_pct) THEN r.discount_pct ELSE Num(0),
     is_promo |-> r.is_promo,
     baseline_units |-> IF ~isna(r.baseline_units) THEN r.baseline_units ELSE SqlNull,
     promo_uplift_pct |-> IF ~isna(r.promo_uplift_pct) THEN r.promo_uplift_pct ELSE SqlNull,
     price_index_vs_comp |->
         IF ~isna(r.price_index_vs_comp) THEN r.price_index_vs_comp ELSE SqlNull,
     data_quality_flag |-> r.data_quality_flag]

load_fact_sales(d, t) ==
    LET valid == df_valid(with_fks(d, t))
    IN  [t EXCEPT !.fact_sales_enriched =
                      @ \o [i \in 1..Len(valid) |-> fact_record(valid[i])]]

(***************************************************************************)
(* Stage 0: the ingestion of the spreadsheet into staging.stg_sales_raw.   *)
(* A sheet is the sequence of its rows under the headers of the file; a    *)
(* date cell is a day, a text cell a sequence of characters.               *)
(***************************************************************************)
column_mapping ==
    [c \in {"Store Name", "Item_Code", "Sub-Department", "Section", "Quantity",
            "Total Sales", "RRP", "Supplier", "Date Of Sale"} |->
        CASE c = "Store Name" -> "store_name"
          [] c = "Item_Code" -> "item_code"
          [] c = "Sub-Department" -> "sub_department"
          [] c = "Section" -> "section"
          [] c = "Quantity" -> "quantity"
          [] c = "Total Sales" -> "total_sales"
          [] c = "RRP" -> "rrp"
          [] c = "Supplier" -> "supplier"
          [] c = "Date Of Sale" -> "date_of_sale"]

\* df.rename(columns=mapping) for one row: a column the mapping does not know
\* keeps its name.
renamed(c, mapping) == IF c \in DOMAIN mapping THEN mapping[c] ELSE c

rename(r, mapping) ==
    [c \in {renamed(k, mapping) : k \in DOMAIN r} |->
        r[CHOOSE k \in DOMAIN r : renamed(k, mapping) = c]]

\* pd.to_datetime(errors='coerce') of a cell: the day at midnight, NaT for an
\* empty cell and for text that is no date.
to_datetime_coerce(v) ==
    IF Len(v) = 1 /\ v[1] \in DOMAIN Ymd THEN Append(v, Midnight) ELSE NaT

\* Lines 60-63: the dataframe of the sheet.
read_frame(sheet) ==
    [i \in 1..Len(sheet) |->
        LET r == rename(sheet[i], column_mapping)
        IN  assign(r, "date_of_sale", to_datetime_coerce(r.date_of_sale))]

\* The value a column of the table keeps for a value sent to it: NULL for NaT
\* where the server takes it.
adapt(v) == IF v = NaT THEN None ELSE v

\* Lines 81-93: the rows of the dataframe as the bulk insert stores them.
values(d) == [i \in 1..Len(d) |-> [c \in DOMAIN d[i] |-> adapt(d[i][c])]]

(***************************************************************************)
(* The contents of the staging table the pipeline is run on.               *)
(***************************************************************************)
Oils == <<"o", "i", "l", "s">>
Cooking == <<"C", "O", "O", "K", "I", "N", "G">>
BidcoLtd == <<"B", "I", "D", "C", "O", " ", "l", "t", "d">>

StoreNames == {<<"a">>, <<"B">>}
ItemCodes == {<<"x">>, <<"Y">>}
Day1 == <<"2024-01-01">>
Day2 == <<"2024-01-02">>

StgRows(stores, items, dates, quantities, sales, rrps) ==
    [store_name : stores, item_code : items, date_of_sale : dates,
     quantity : quantities, total_sales : sales, rrp : rrps,
     sub_department : {Oils}, section : {Cooking}, supplier : {BidcoLtd}]

\* Every table of at most MaxRows rows, duplicates and every order included.
Frames(rows) == UNION {[1..n -> rows] : n \in 0..MaxRows}

RECURSIVE Sorted(_)
Sorted(S) ==
    IF S = {} THEN <<>>
    ELSE LET m == CHOOSE x \in S : \A y \in S : x <= y
         IN  <<m>> \o Sorted(S \ {m})

\* Every table of at most MaxRows rows that lists some of the sale keys, in
\* their order, with one sale each.
KeyedFrames(keys, sales) ==
    UNION {{[i \in 1..Cardinality(S) |->
                [c \in DOMAIN keys[1] \cup DOMAIN f[Sorted(S)[i]] |->
                    IF c \in DOMAIN keys[1] THEN keys[Sorted(S)[i]][c]
                    ELSE f[Sorted(S)[i]][c]]] :
            f \in [S -> sales]} :
           S \in {T \in SUBSET (1..Len(keys)) : Cardinality(T) <= MaxRows}}

\* Promo detection: two stores, two items, two days; every sale is of one unit
\* with RRP 10, sold at 9 (10% off, the threshold) or at 10.
PromoRows ==
    StgRows(StoreNames, ItemCodes, {Day1, Day2}, {Num(1)},
            {Num(9), Num(10)}, {Num(10)})

\* Uplift: one item in two stores on two days, at most one sale per store and
\* day; quantities missing, returned, zero and positive; RRP 10 (the sale is a
\* promo candidate) or 0 (it is not).
UpliftKeys ==
    <<[store_name |-> <<"a">>, date_of_sale |-> Day1],
      [store_name |-> <<"a">>, date_of_sale |-> Day2],
      [store_name |-> <<"B">>, date_of_sale |-> Day1],
      [store_name |-> <<"B">>, date_of_sale |-> Day2]>>

UpliftSales ==
    [item_code : {<<"x">>}, quantity : {NaN, Num(-1), Num(0), Num(2)},
     total_sales : {Num(8)}, rrp : {Num(0), Num(10)},
     sub_department : {Oils}, section : {Cooking}, supplier : {BidcoLtd}]

\* Price index: one item in two stores on two days, one unit sold for a
\* missing, negative, zero or positive amount.
PriceRows ==
    StgRows(StoreNames, {<<"x">>}, {Day1, Day2}, {Num(1)},
            {NaN, Num(-8), Num(0), Num(8)}, {Num(10)})

\* Price groups: one item sold by Bidco or a competitor in two sections of two
\* stores, one unit for 80, for 120 or for a missing amount.
Frying == <<"f", "r", "y", "i", "n", "g">>
Unilever == <<"u", "n", "i", "l", "e", "v", "e", "r">>

IndexSales ==
    [item_code : {<<"x">>}, quantity : {Num(1)},
     total_sales : {NaN, Num(80), Num(120)}, rrp : {Num(100)},
     sub_department : {Oils}, section : {Cooking, Frying},
     supplier : {BidcoLtd, Unilever}]

\* Coverage: two items in two stores on two days, at most one sale per store,
\* item and day, of one unit with RRP 10 sold at 9 or at 10.
CoverageKeys ==
    <<[store_name |-> <<"a">>, item_code |-> <<"x">>, date_of_sale |-> Day1],
      [store_name |-> <<"a">>, item_code |-> <<"x">>, date_of_sale |-> Day2],
      [store_name |-> <<"a">>, item_code |-> <<"Y">>, date_of_sale |-> Day1],
      [store_name |-> <<"a">>, item_code |-> <<"Y">>, date_of_sale |-> Day2],
      [store_name |-> <<"B">>, item_code |-> <<"x">>, date_of_sale |-> Day1],
      [store_name |-> <<"B">>, item_code |-> <<"x">>, date_of_sale |-> Day2],
      [store_name |-> <<"B">>, item_code |-> <<"Y">>, date_of_sale |-> Day1],
      [store_name |-> <<"B">>, item_code |-> <<"Y">>, date_of_sale |-> Day2]>>

CoverageSales ==
    [quantity : {Num(1)}, total_sales : {Num(9), Num(10)}, rrp : {Num(10)},
     sub_department : {Oils}, section : {Cooking}, supplier : {BidcoLtd}]

\* RRP: one item in two stores on two days, one unit sold for a missing,
\* negative or positive amount, with an RRP that is missing, negative, zero or
\* positive.
RrpSales ==
    [item_code : {<<"x">>}, quantity : {Num(1)},
     total_sales : {NaN, Num(-8), Num(8)},
     rrp : {NaN, Num(-10), Num(0), Num(10)},
     sub_department : {Oils}, section : {Cooking}, supplier : {BidcoLtd}]

\* Suppliers: one item in two stores on two days, supplied by Bidco under
\* three spellings, by a competitor, or by nobody.
BidcoAfrica == <<"B", "I", "D", "C", "O", " ", "A", "F", "R", "I", "C", "A", " ",
                 "L", "T", "D">>
Ebidco == <<"e", "b", "i", "d", "c", "o">>
BidCo == <<"b", "i", "d", " ", "c", "o">>

SupplierSales ==
    [item_code : {<<"x">>}, quantity : {Num(1)}, total_sales : {Num(8)},
     rrp : {Num(10)}, sub_department : {Oils}, section : {Cooking},
     supplier : {BidcoAfrica, Ebidco, BidCo, Unilever, None}]

\* Duplicates: one store and one item under several spellings, on one day or
\* without a date, one unit sold at 9 or at 10.
DedupeRows ==
    {r \in StgRows({<<"a">>, <<" ", "A">>}, {<<"x">>, <<"X", " ">>}, {Day1, None},
                   {Num(1)}, {Num(9), Num(10)}, {Num(10)}) :
        r.store_name = <<"a">> \/ r.item_code = <<"x">>}

\* Data quality: two complete sales and sales with a blank store, an empty
\* item code or no date; a returned unit, a negative amount, a unit price 60%
\* and 50% below the RRP; an RRP that is missing, zero or 10.
QualityKeys ==
    <<[store_name |-> <<"a">>, item_code |-> <<"x">>, date_of_sale |-> Day1],
      [store_name |-> <<"a">>, item_code |-> <<"x">>, date_of_sale |-> Day2],
      [store_name |-> <<" ">>, item_code |-> <<"x">>, date_of_sale |-> Day1],
      [store_name |-> <<"a">>, item_code |-> <<>>, date_of_sale |-> Day1],
      [store_name |-> <<"a">>, item_code |-> <<"x">>, date_of_sale |-> None]>>

QualitySales ==
    {r \in [quantity : {Num(-1), Num(1)}, total_sales : {Num(-8), Num(4), Num(5)},
            rrp : {NaN, Num(0), Num(10)},
            sub_department : {Oils}, section : {Cooking}, supplier : {BidcoLtd}] :
        /\ r.quantity = Num(-1) => r.total_sales = Num(5) /\ r.rrp # Num(0)
        /\ r.total_sales = Num(-8) => r.rrp # NaN
        /\ r.total_sales = Num(4) => r.rrp = Num(10)}

\* The warehouse before the first load.
EmptyDw ==
    [dim_store |-> <<>>, dim_supplier |-> <<>>, dim_date |-> <<>>,
     dim_item |-> <<>>, fact_sales_enriched |-> <<>>]

\* No connection, no transaction.
NoTx == <<>>

\* Loading: two items of two suppliers in two stores on two days, and a sale
\* without date; the quantity is 1 or missing.
LoadKeys ==
    <<[store_name |-> <<"a">>, item_code |-> <<"x">>, date_of_sale |-> Day1,
       supplier |-> BidcoLtd],
      [store_name |-> <<"B">>, item_code |-> <<"x">>, date_of_sale |-> Day2,
       supplier |-> BidcoLtd],
      [store_name |-> <<"a">>, item_code |-> <<"Y">>, date_of_sale |-> Day1,
       supplier |-> Unilever],
      [store_name |-> <<"a">>, item_code |-> <<"x">>, date_of_sale |-> None,
       supplier |-> BidcoLtd]>>

LoadSales ==
    [quantity : {NaN, Num(1)}, total_sales : {Num(8)}, rrp : {Num(10)},
     sub_department : {Oils}, section : {Cooking}]

\* A warehouse that an earlier load of other data has left: store A, and item
\* X under another section.
OldDw ==
    [EmptyDw EXCEPT
        !.dim_store = <<[store_id |-> 1, store_name |-> <<"A">>]>>,
        !.dim_item = <<[item_id |-> 1, item_code |-> <<"X">>,
                        sub_department |-> <<"O", "i", "l", "s">>,
                        section |-> <<"O", "l", "d">>, is_bidco |-> FALSE]>>]

InitWith(frames) ==
    /\ stg \in frames
    /\ df_cleaned = <<>>
    /\ df = <<>>
    /\ enriched = <<>>
    /\ pc = "clean_data"
    /\ xlsx = <<>>
    /\ dw = EmptyDw
    /\ tx = NoTx
    /\ conn = "none"
    /\ runs = <<>>

Init == InitWith(Frames(PromoRows))

InitUplift == InitWith(KeyedFrames(UpliftKeys, UpliftSales))

InitPrice == InitWith(Frames(PriceRows))

InitIndex == InitWith(KeyedFrames(UpliftKeys, IndexSales))

InitCoverage == InitWith(KeyedFrames(CoverageKeys, CoverageSales))

InitRrp == InitWith(KeyedFrames(UpliftKeys, RrpSales))

InitSupplier == InitWith(KeyedFrames(UpliftKeys, SupplierSales))

InitDedupe == InitWith(Frames(DedupeRows))

InitQuality == InitWith(KeyedFrames(QualityKeys, QualitySales))

InitLoad ==
    /\ stg \in KeyedFrames(LoadKeys, LoadSales)
    /\ df_cleaned = <<>>
    /\ df = <<>>
    /\ enriched = <<>>
    /\ pc = "clean_data"
    /\ xlsx = <<>>
    /\ dw \in {EmptyDw, OldDw}
    /\ tx = NoTx
    /\ conn = "none"
    /\ runs = <<>>

(***************************************************************************)
(* The pipeline: clean_data, then main of the transformation stage, which  *)
(* is run MaxRuns times on the same cleaned dataframe.                     *)
(***************************************************************************)
CleanData ==
    /\ pc = "clean_data"
    /\ df_cleaned' = clean_data(stg)
    /\ pc' = "detect_promos"
    /\ UNCHANGED <<stg, df, enriched, db>>

DetectPromos ==
    /\ pc = "detect_promos"
    /\ df' = detect_promos(df_cleaned)
    /\ df_cleaned' = detect_promos_arg(df_cleaned)
    /\ pc' = "calculate_uplift"
    /\ UNCHANGED <<stg, enriched, db>>

CalculateUplift ==
    /\ pc = "calculate_uplift"
    /\ df' = calculate_uplift(df)
    /\ pc' = "calculate_price_index"
    /\ UNCHANGED <<stg, df_cleaned, enriched, db>>

CalculatePriceIndex ==
    /\ pc = "calculate_price_index"
    /\ df' = calculate_price_index(df)
    /\ pc' = "calculate_promo_coverage"
    /\ UNCHANGED <<stg, df_cleaned, enriched, db>>

CalculatePromoCoverage ==
    /\ pc = "calculate_promo_coverage"
    /\ df' = calculate_promo_coverage(df)
    /\ enriched' = Append(enriched, df')
    /\ pc' = IF Len(enriched') < MaxRuns THEN "detect_promos" ELSE "done"
    /\ UNCHANGED <<stg, df_cleaned, db>>

\* Ingestion: sheets of up to MaxRows rows whose date cell is a day or the
\* text "n/a", read into a staging table that is empty or holds the row of an
\* earlier file.
SheetRows ==
    {[c \in DOMAIN column_mapping |->
        CASE c = "Store Name" -> <<"a">>
          [] c = "Item_Code" -> <<"x">>
          [] c = "Sub-Department" -> Oils
          [] c = "Section" -> Cooking
          [] c = "Quantity" -> Num(1)
          [] c = "Total Sales" -> Num(8)
          [] c = "RRP" -> Num(10)
          [] c = "Supplier" -> BidcoLtd
          [] c = "Date Of Sale" -> date] : date \in {Day1, <<"n", "/", "a">>}}

Sheets == UNION {[1..n -> SheetRows] : n \in 0..MaxRows}

OldStaging ==
    <<[store_name |-> <<"o", "l", "d">>, item_code |-> <<"x">>, sub_department |-> Oils,
       section |-> Cooking, quantity |-> Num(1), total_sales |-> Num(8),
       rrp |-> Num(10), supplier |-> BidcoLtd, date_of_sale |-> Append(Day2, Midnight)]>>

InitIngest ==
    /\ stg \in {<<>>, OldStaging}
    /\ df_cleaned = <<>>
    /\ df = <<>>
    /\ enriched = <<>>
    /\ pc = "load_excel_to_staging"
    /\ xlsx = <<>>
    /\ dw = EmptyDw
    /\ tx = NoTx
    /\ conn = "none"
    /\ runs = <<>>

(***************************************************************************)
(* main of the loading stage, run MaxRuns times on the dataframe the       *)
(* transformation returned.  Every statement sent to the database may      *)
(* fail; a step that fails does so at its commit, after its writes.        *)
(***************************************************************************)
\* The run is over: the next one starts, or the stage is left.  What the
\* caller saw of the run is kept: the step that ended it, the exception that
\* reached the caller, and the rows the fact table held at that moment.
Finished(step, error) ==
    /\ runs' = Append(runs, [step |-> step, error |-> error,
                             fact_count |-> Len(dw'.fact_sales_enriched)])
    /\ pc' = IF Len(runs') < MaxRuns THEN "done" ELSE "loaded"

\* Lines 321-326: the exception of a step reaches main, which rolls back the
\* pending writes, re-raises and closes the connection.
Raised(step, error, pending) ==
    /\ dw' = rollback(dw, pending)
    /\ tx' = NoTx
    /\ conn' = "closed"
    /\ Finished(step, error)

\* A loader has committed its writes.
Committed(pending, next) ==
    /\ dw' = commit(dw, pending)
    /\ tx' = dw'
    /\ pc' = next
    /\ UNCHANGED <<conn, runs>>

GetConnection ==
    /\ pc = "done"
    /\ \E fails \in BOOLEAN :
        IF fails
        THEN UNCHANGED <<dw, tx, conn>> /\ Finished("get_connection", "OperationalError")
        ELSE /\ conn' = "open"
             /\ tx' = dw
             /\ pc' = "load_dimension_stores"
             /\ UNCHANGED <<dw, runs>>
    /\ UNCHANGED <<stg, df_cleaned, df, enriched, xlsx>>

LoadDimensionStores ==
    /\ pc = "load_dimension_stores"
    /\ \E fails \in BOOLEAN :
        IF fails
        THEN Raised("load_dimension_stores", "OperationalError",
                    load_dimension_stores(df, tx))
        ELSE Committed(load_dimension_stores(df, tx), "load_dimension_suppliers")
    /\ UNCHANGED <<stg, df_cleaned, df, enriched, xlsx>>

LoadDimensionSuppliers ==
    /\ pc = "load_dimension_suppliers"
    /\ \E fails \in BOOLEAN :
        IF fails
        THEN Raised("load_dimension_suppliers", "OperationalError",
                    load_dimension_suppliers(df, tx))
        ELSE Committed(load_dimension_suppliers(df, tx), "load_dimension_dates")
    /\ UNCHANGED <<stg, df_cleaned, df, enriched, xlsx>>

LoadDimensionDates ==
    /\ pc = "load_dimension_dates"
    /\ IF load_dimension_dates_raises(df)
       THEN LET k == CHOOSE i \in 1..Len(df) :
                        /\ df[i].date_of_sale = NaT
                        /\ \A j \in 1..(i - 1) : df[j].date_of_sale # NaT
            IN  Raised("load_dimension_dates", "ValueError",
                       load_dimension_dates(SubSeq(df, 1, k - 1), tx))
       ELSE \E fails \in BOOLEAN :
                IF fails
                THEN Raised("load_dimension_dates", "OperationalError",
                            load_dimension_dates(df, tx))
                ELSE Committed(load_dimension_dates(df, tx), "load_dimension_items")
    /\ UNCHANGED <<stg, df_cleaned, df, enriched, xlsx>>

LoadDimensionItems ==
    /\ pc = "load_dimension_items"
    /\ \E fails \in BOOLEAN :
        IF fails
        THEN Raised("load_dimension_items", "OperationalError",
                    load_dimension_items(df, tx))
        ELSE Committed(load_dimension_items(df, tx), "load_fact_sales")
    /\ UNCHANGED <<stg, df_cleaned, df, enriched, xlsx>>

LoadFactSales ==
    /\ pc = "load_fact_sales"
    /\ df' = with_fks(df, tx)
    /\ IF fact_records_raises(df_valid(df'))
       THEN Raised("load_fact_sales", "ValueError", tx)
       ELSE \E fails \in BOOLEAN :
                IF fails
                THEN Raised("load_fact_sales", "OperationalError", load_fact_sales(df, tx))
                ELSE Committed(load_fact_sales(df, tx), "summary")
    /\ UNCHANGED <<stg, df_cleaned, enriched, xlsx>>

\* Lines 279-319: the counts read back and printed, then the finally clause.
LoadSummary ==
    /\ pc = "summary"
    /\ \E fails \in BOOLEAN :
        IF fails
        THEN Raised("summary", "OperationalError", tx)
        ELSE /\ conn' = "closed"
             /\ tx' = NoTx
             /\ UNCHANGED dw
             /\ Finished("main", "none")
    /\ UNCHANGED <<stg, df_cleaned, df, enriched, xlsx>>

(***************************************************************************)
(* load_excel_to_staging, run MaxRuns times, each time on the file that    *)
(* is there; the read, the connection and every statement may fail.        *)
(***************************************************************************)
\* The call is over, with the exception it raised or none.
Returned(step, error) ==
    /\ runs' = Append(runs, [step |-> step, error |-> error])
    /\ pc' = IF Len(runs') < MaxRuns THEN "load_excel_to_staging" ELSE "ingested"

\* Lines 35-63: the sheet is read and converted, or the error is re-raised.
ReadExcel ==
    /\ pc = "load_excel_to_staging"
    /\ \E sheet \in Sheets, fails \in BOOLEAN :
        /\ xlsx' = sheet
        /\ IF fails
           THEN UNCHANGED df /\ Returned("read_excel", "Exception")
           ELSE df' = read_frame(sheet) /\ pc' = "connect" /\ UNCHANGED runs
    /\ UNCHANGED <<stg, df_cleaned, enriched, dw, tx, conn>>

\* Lines 67-73.
Connect ==
    /\ pc = "connect"
    /\ \E fails \in BOOLEAN :
        IF fails
        THEN UNCHANGED <<tx, conn>> /\ Returned("connect", "OperationalError")
        ELSE conn' = "open" /\ tx' = stg /\ pc' = "truncate" /\ UNCHANGED runs
    /\ UNCHANGED <<stg, df_cleaned, df, enriched, xlsx, dw>>

\* Lines 77-78, outside any try: when the statement or its commit fails the
\* error leaves the function with the connection open, and the table is as it
\* was.
Truncate ==
    /\ pc = "truncate"
    /\ \E fails \in BOOLEAN :
        IF fails
        THEN /\ stg' = rollback(stg, <<>>)
             /\ tx' = NoTx
             /\ UNCHANGED conn
             /\ Returned("truncate", "OperationalError")
        ELSE /\ stg' = commit(stg, <<>>)
             /\ tx' = stg'
             /\ pc' = "insert"
             /\ UNCHANGED <<conn, runs>>
    /\ UNCHANGED <<df_cleaned, df, enriched, xlsx, dw>>

\* Lines 92-102: the bulk insert and its commit, or the rollback and the
\* re-raise; the connection is closed either way.
Insert ==
    /\ pc = "insert"
    /\ conn' = "closed"
    /\ tx' = NoTx
    /\ \E fails \in BOOLEAN :
        IF fails
        THEN stg' = rollback(stg, tx \o values(df)) /\ Returned("insert", "Exception")
        ELSE stg' = commit(stg, tx \o values(df)) /\ pc' = "verify" /\ UNCHANGED runs
    /\ UNCHANGED <<df_cleaned, df, enriched, xlsx, dw>>

\* Lines 105-114: the count read back over a second connection, which stays
\* open when the query fails.
Verify ==
    /\ pc = "verify"
    /\ \E fails \in {"no", "connect", "execute"} :
        /\ conn' = IF fails = "execute" THEN "open" ELSE "closed"
        /\ IF fails = "no"
           THEN Returned("load_excel_to_staging", "none")
           ELSE Returned("verify", "OperationalError")
    /\ UNCHANGED <<stg, df_cleaned, df, enriched, xlsx, dw, tx>>

Next ==
    \/ CleanData
    \/ DetectPromos
    \/ CalculateUplift
    \/ CalculatePriceIndex
    \/ CalculatePromoCoverage

Spec == Init /\ [][Next]_vars

SpecUplift == InitUplift /\ [][Next]_vars

SpecPrice == InitPrice /\ [][Next]_vars

SpecIndex == InitIndex /\ [][Next]_vars

SpecCoverage == InitCoverage /\ [][Next]_vars

SpecRrp == InitRrp /\ [][Next]_vars

SpecSupplier == InitSupplier /\ [][Next]_vars

SpecDedupe == InitDedupe /\ [][Next]_vars

SpecQuality == InitQuality /\ [][Next]_vars

NextLoad ==
    \/ Next
    \/ GetConnection
    \/ LoadDimensionStores
    \/ LoadDimensionSuppliers
    \/ LoadDimensionDates
    \/ LoadDimensionItems
    \/ LoadFactSales
    \/ LoadSummary

SpecLoad == InitLoad /\ [][NextLoad]_vars

NextIngest ==
    \/ ReadExcel
    \/ Connect
    \/ Truncate
    \/ Insert
    \/ Verify

SpecIngest == InitIngest /\ [][NextIngest]_vars

(***************************************************************************)
(* Properties.  They are stated on the columns of the dataframes, with     *)
(* integer arithmetic on the numerators and denominators.                  *)
(***************************************************************************)
\* df holds the output of at least one pass.
Transformed ==
    \/ pc \in {"calculate_uplift", "calculate_price_index", "calculate_promo_coverage", "done"}
    \/ Len(enriched) > 0

HasColumn(c) == df # <<>> /\ c \in DOMAIN df[1]

Defined(x) == x[2] > 0

Positive(x) == x[2] > 0 /\ x[1] > 0

AtLeast(x, n, d) == x[2] > 0 /\ x[1] * d >= n * x[2]

\* The row's discount is at least 10%.
Candidate(r) == AtLeast(r.discount_pct, 1, 10)

ItemRows(item) == {j \in 1..Len(df) : df[j].item_code = item}

CandidateDates(item) ==
    {df[j].date_of_sale : j \in {k \in ItemRows(item) : Candidate(df[k])}} \ {NaT}

\* C1: a row is a promo row iff its own discount is at least 10% and its item
\* has at least 2 promo days; an item whose candidate rows all fall on one
\* date has promo_days_count 1 and no promo row.
C1_IsPromoIff ==
    \A i \in 1..Len(df) :
        /\ df[i].is_promo <=> (Candidate(df[i]) /\ AtLeast(df[i].promo_days_count, 2, 1))
        /\ Cardinality(CandidateDates(df[i].item_code)) = 1
              => df[i].promo_days_count = Num(1) /\ ~df[i].is_promo

C1_Witness ==
    \E i, j \in 1..Len(df) :
        /\ df[i].is_promo
        /\ Candidate(df[j]) /\ ~df[j].is_promo /\ df[j].promo_days_count = Num(1)

\* C2: promo_days_count of a row is the number of distinct dates, over all
\* stores, on which its item has a candidate row; 0 when it has none.
C2_PromoDaysCount ==
    \A i \in 1..Len(df) :
        df[i].promo_days_count = Num(Cardinality(CandidateDates(df[i].item_code)))

C2_Witness ==
    \E i, j, k \in 1..Len(df) :
        /\ df[i].item_code = df[j].item_code
        /\ df[i].store_name # df[j].store_name
        /\ df[i].date_of_sale # df[j].date_of_sale
        /\ Candidate(df[i]) /\ Candidate(df[j])
        /\ df[i].promo_days_count = Num(2)
        /\ df[k].promo_days_count = Num(0)

\* C3: every pass returns one row per row of the cleaned dataframe, in the
\* same order.
C3_RowsPreserved ==
    Transformed =>
        /\ Len(df) = Len(df_cleaned)
        /\ \A i \in 1..Len(df) : key_of(df[i], duplicate_cols) = key_of(df_cleaned[i], duplicate_cols)
        /\ \A k \in 1..Len(enriched) : Len(enriched[k]) = Len(df_cleaned)

C3_Witness ==
    /\ pc = "done"
    /\ \E i, j \in 1..Len(df) : df[i].is_promo /\ df[j].promo_days_count = Num(0)

\* C4: quantity, total_sales, rrp and data_quality_flag of every row are the
\* ones of the cleaned dataframe after every pass.
C4_InputColumnsKept ==
    Transformed =>
        \A i \in 1..Len(df) :
            i <= Len(df_cleaned) =>
                \A c \in {"quantity", "total_sales", "rrp", "data_quality_flag"} :
                    df[i][c] = df_cleaned[i][c]

C4_Witness ==
    /\ pc = "done"
    /\ \E i, j \in 1..Len(df) :
        /\ isna(df[i].quantity) /\ Defined(df[i].baseline_units) /\ df[i].is_promo
        /\ df[j].data_quality_flag = "low"

C9_CohortPromo ==
    \A i, j \in 1..Len(df) :
        df[i].item_code = df[j].item_code /\ df[i].date_of_sale = df[j].date_of_sale
            => df[i].is_promo = df[j].is_promo

\* C9 amended: two rows of the same item and date whose discounts are on the
\* same side of the 10% threshold carry the same is_promo.
C9_CohortPromoOfCandidates ==
    \A i, j \in 1..Len(df) :
        /\ df[i].item_code = df[j].item_code
        /\ df[i].date_of_sale = df[j].date_of_sale
        /\ Candidate(df[i]) = Candidate(df[j])
        => df[i].is_promo = df[j].is_promo

C9_Witness ==
    \E i, j \in 1..Len(df) :
        /\ df[i].item_code = df[j].item_code
        /\ df[i].date_of_sale = df[j].date_of_sale
        /\ df[i].store_name # df[j].store_name
        /\ Candidate(df[i]) /\ Candidate(df[j])
        /\ df[i].is_promo /\ df[j].is_promo

NonPromoRows(item) == {j \in ItemRows(item) : ~df[j].is_promo}

PromoRowsOf(item) == {j \in ItemRows(item) : df[j].is_promo}

\* The rows of S whose quantity is not missing.
WithQuantity(S) == {j \in S : Defined(df[j].quantity)}

RECURSIVE SumQuantity(_)
SumQuantity(S) ==
    IF S = {} THEN 0
    ELSE LET j == CHOOSE x \in S : TRUE
         IN  df[j].quantity[1] + SumQuantity(S \ {j})

\* x is the mean of the (whole-numbered) quantities of the rows S # {}.
IsMeanQuantity(x, S) == Defined(x) /\ x[1] * Cardinality(S) = SumQuantity(S) * x[2]

\* u = (a - b) / b * 100 for defined a, b with b # 0.
IsUplift(u, a, b) ==
    Defined(u) /\ u[1] * a[2] * b[1] = 100 * (a[1] * b[2] - b[1] * a[2]) * u[2]

\* C6: promo_uplift_pct is (promo_avg_units - baseline_units) / baseline_units
\* * 100 on a promo row with a positive baseline and 0 on every other row; it
\* is a defined number on every row, whatever the baseline.
C6_UpliftGuarded ==
    HasColumn("promo_uplift_pct") =>
        \A i \in 1..Len(df) :
            /\ Defined(df[i].promo_uplift_pct)
            /\ IF df[i].is_promo /\ Positive(df[i].baseline_units)
               THEN IsUplift(df[i].promo_uplift_pct, df[i].promo_avg_units,
                             df[i].baseline_units)
               ELSE df[i].promo_uplift_pct = Num(0)

C6_Witness ==
    /\ HasColumn("promo_uplift_pct")
    /\ \E i \in 1..Len(df) :
        /\ df[i].is_promo
        /\ df[i].baseline_units = Num(0)
        /\ df[i].promo_avg_units # Num(0)
        /\ df[i].promo_uplift_pct = Num(0)

\* C7 as claimed: baseline_units is the mean quantity over the non-promo rows
\* of the item, the row's own quantity when the item has no non-promo row;
\* promo_avg_units is the mean quantity over its promo rows, 0 when it has none.
\* (The mean skips missing quantities and is undefined when none is left.)
C7_Averages ==
    HasColumn("promo_avg_units") =>
        \A i \in 1..Len(df) :
            LET np == NonPromoRows(df[i].item_code)
                pr == PromoRowsOf(df[i].item_code)
            IN  /\ IF np = {} THEN df[i].baseline_units = df[i].quantity
                   ELSE IF WithQuantity(np) = {} THEN isna(df[i].baseline_units)
                   ELSE IsMeanQuantity(df[i].baseline_units, WithQuantity(np))
                /\ IF pr = {} THEN df[i].promo_avg_units = Num(0)
                   ELSE IF WithQuantity(pr) = {} THEN isna(df[i].promo_avg_units)
                   ELSE IsMeanQuantity(df[i].promo_avg_units, WithQuantity(pr))

\* C7 amended: baseline_units is the mean of the quantities that are not
\* missing over the non-promo rows of the item, the row's own quantity when
\* the item has no non-promo row with a quantity; promo_avg_units is the mean
\* of the quantities that are not missing over its promo rows, 0 when it has
\* no promo row with a quantity.
C7_AveragesOfKnownQuantities ==
    HasColumn("promo_avg_units") =>
        \A i \in 1..Len(df) :
            LET np == WithQuantity(NonPromoRows(df[i].item_code))
                pr == WithQuantity(PromoRowsOf(df[i].item_code))
            IN  /\ IF np = {} THEN df[i].baseline_units = df[i].quantity
                   ELSE IsMeanQuantity(df[i].baseline_units, np)
                /\ IF pr = {} THEN df[i].promo_avg_units = Num(0)
                   ELSE IsMeanQuantity(df[i].promo_avg_units, pr)

C7_Witness ==
    /\ HasColumn("promo_avg_units")
    /\ \E i, j \in 1..Len(df) :
        /\ df[i].is_promo /\ ~df[j].is_promo
        /\ df[i].item_code = df[j].item_code
        /\ WithQuantity(NonPromoRows(df[i].item_code)) = {}
        /\ Defined(df[i].quantity)
        /\ df[i].baseline_units = df[i].quantity

\* C8 as claimed: on every row of an item without non-promo rows
\* promo_uplift_pct is 0.
C8_FallbackUpliftZero ==
    HasColumn("promo_uplift_pct") =>
        \A i \in 1..Len(df) :
            NonPromoRows(df[i].item_code) = {} => df[i].promo_uplift_pct = Num(0)

\* C8 amended: on every row of an item without non-promo rows baseline_units
\* is the row's own quantity q, and promo_uplift_pct is
\* (promo_avg_units - q) / q * 100 when q > 0 and 0 otherwise: it is 0 on the
\* rows whose quantity is the promo average of the item or is not positive.
C8_FallbackUplift ==
    HasColumn("promo_uplift_pct") =>
        \A i \in 1..Len(df) :
            NonPromoRows(df[i].item_code) = {} =>
                /\ df[i].baseline_units = df[i].quantity
                /\ IF Positive(df[i].quantity)
                   THEN IsUplift(df[i].promo_uplift_pct, df[i].promo_avg_units,
                                 df[i].quantity)
                   ELSE df[i].promo_uplift_pct = Num(0)
                /\ df[i].quantity = df[i].promo_avg_units
                      => df[i].promo_uplift_pct = Num(0)

C8_Witness ==
    /\ HasColumn("promo_uplift_pct")
    /\ \E i, j \in 1..Len(df) :
        /\ NonPromoRows(df[i].item_code) = {}
        /\ df[i].item_code = df[j].item_code
        /\ Positive(df[i].quantity)
        /\ df[i].promo_uplift_pct # Num(0)
        /\ df[j].quantity # df[i].quantity
        /\ df[j].promo_uplift_pct = Num(0)

\* x = a / b for a defined b # 0; undefined when a is.
IsRatio(x, a, b) ==
    IF Defined(a) THEN Defined(x) /\ x[1] * a[2] * b[1] = a[1] * b[2] * x[2]
    ELSE isna(x)

\* C10 as claimed: price_index_vs_comp is unit_price / group_avg_price when
\* the group average is not 0 and 1.0 when it is 0 (stated for the rows whose
\* group average is a defined number).
C10_PriceIndex ==
    HasColumn("price_index_vs_comp") =>
        \A i \in 1..Len(df) :
            Defined(df[i].group_avg_price) =>
                IF df[i].group_avg_price = Num(0)
                THEN df[i].price_index_vs_comp = Num(1)
                ELSE IsRatio(df[i].price_index_vs_comp, df[i].unit_price,
                             df[i].group_avg_price)

\* C10 amended: price_index_vs_comp is unit_price / group_avg_price when the
\* group average is greater than 0 and 1.0 in every other case (a group
\* average that is 0, negative or undefined).
C10_PriceIndexOfPositiveAverage ==
    HasColumn("price_index_vs_comp") =>
        \A i \in 1..Len(df) :
            IF Positive(df[i].group_avg_price)
            THEN IsRatio(df[i].price_index_vs_comp, df[i].unit_price,
                         df[i].group_avg_price)
            ELSE df[i].price_index_vs_comp = Num(1)

C10_Witness ==
    /\ HasColumn("price_index_vs_comp")
    /\ \E i, j \in 1..Len(df) :
        /\ Defined(df[i].group_avg_price)
        /\ df[i].group_avg_price[1] < 0
        /\ df[i].unit_price # df[i].group_avg_price
        /\ df[i].price_index_vs_comp = Num(1)
        /\ Positive(df[j].group_avg_price)
        /\ df[j].price_index_vs_comp = Num(1)

\* C11: on every row whose group average is greater than 0,
\* price_index_vs_comp times group_avg_price is the row's unit_price (a missing
\* unit_price comes back missing).
C11_RoundTrip ==
    HasColumn("price_index_vs_comp") =>
        \A i \in 1..Len(df) :
            Positive(df[i].group_avg_price) =>
                float_mul(df[i].price_index_vs_comp, df[i].group_avg_price)
                    = df[i].unit_price

C11_Witness ==
    /\ HasColumn("price_index_vs_comp")
    /\ \E i, j \in 1..Len(df) :
        /\ Positive(df[i].group_avg_price)
        /\ Positive(df[i].unit_price)
        /\ df[i].unit_price # df[i].group_avg_price
        /\ df[i].price_index_vs_comp # Num(1)
        /\ df[j].store_name = df[i].store_name
        /\ df[j].unit_price = Num(0)
        /\ df[j].price_index_vs_comp = Num(0)

\* The rows of the price group of row i.
GroupRows(i) ==
    {j \in 1..Len(df) :
        /\ df[j].sub_department = df[i].sub_department
        /\ df[j].section = df[i].section
        /\ df[j].store_name = df[i].store_name}

WithPrice(S) == {j \in S : Defined(df[j].unit_price)}

RECURSIVE SumPrice(_)
SumPrice(S) ==
    IF S = {} THEN Num(0)
    ELSE LET j == CHOOSE x \in S : TRUE
         IN  float_add(df[j].unit_price, SumPrice(S \ {j}))

\* x is the mean of the unit prices of the rows S # {}.
IsMeanPrice(x, S) ==
    Defined(x) /\ x[1] * Cardinality(S) * SumPrice(S)[2] = SumPrice(S)[1] * x[2]

\* C12: group_avg_price of a row is the mean of the unit prices (the missing
\* ones skipped) over all rows with the row's sub_department, section and
\* store_name, whatever their supplier; every row of the group carries the same
\* value; a Bidco row priced 80 in a group averaging 100 has index 0.80.
C12_GroupAverage ==
    HasColumn("price_index_vs_comp") =>
        \A i \in 1..Len(df) :
            /\ IF WithPrice(GroupRows(i)) = {} THEN isna(df[i].group_avg_price)
               ELSE IsMeanPrice(df[i].group_avg_price, WithPrice(GroupRows(i)))
            /\ \A j \in GroupRows(i) : df[j].group_avg_price = df[i].group_avg_price
            /\ (df[i].is_bidco /\ df[i].unit_price = Num(80)
                    /\ df[i].group_avg_price = Num(100))
                  => df[i].price_index_vs_comp = <<4, 5>>

C12_Witness ==
    /\ HasColumn("price_index_vs_comp")
    /\ \E i, j, k \in 1..Len(df) :
        /\ df[i].is_bidco /\ df[i].unit_price = Num(80)
        /\ j \in GroupRows(i) /\ ~df[j].is_bidco /\ df[j].unit_price = Num(120)
        /\ df[i].group_avg_price = Num(100)
        /\ df[i].price_index_vs_comp = <<4, 5>>
        /\ k \notin GroupRows(i)
        /\ df[k].group_avg_price = Num(80)

\* The stores of the dataset.
Stores == {df[j].store_name : j \in 1..Len(df)}

\* The stores in which the item has a promo row.
PromoStores(item) == {df[j].store_name : j \in PromoRowsOf(item)}

\* C13: promo_coverage_pct is a number from 0 to 100 on every row, and 0 on
\* every row of an item without promo rows.
C13_CoverageRange ==
    HasColumn("promo_coverage_pct") =>
        \A i \in 1..Len(df) :
            /\ Defined(df[i].promo_coverage_pct)
            /\ df[i].promo_coverage_pct[1] >= 0
            /\ df[i].promo_coverage_pct[1] <= 100 * df[i].promo_coverage_pct[2]
            /\ PromoRowsOf(df[i].item_code) = {} => df[i].promo_coverage_pct = Num(0)

C13_Witness ==
    /\ HasColumn("promo_coverage_pct")
    /\ \E i, j \in 1..Len(df) :
        /\ df[i].promo_coverage_pct = Num(50)
        /\ PromoRowsOf(df[j].item_code) = {}
        /\ df[j].promo_coverage_pct = Num(0)

\* C14: promo_store_count of a row is the number of distinct stores among the
\* promo rows of its item, and promo_coverage_pct is that count divided by the
\* number of distinct stores of the whole dataset, times 100; every row of the
\* item carries the same two values.
C14_CoverageOfAllStores ==
    HasColumn("promo_coverage_pct") =>
        \A i \in 1..Len(df) :
            /\ df[i].promo_store_count = Num(Cardinality(PromoStores(df[i].item_code)))
            /\ Defined(df[i].promo_coverage_pct)
            /\ df[i].promo_coverage_pct[1] * Cardinality(Stores)
                  = 100 * Cardinality(PromoStores(df[i].item_code))
                        * df[i].promo_coverage_pct[2]
            /\ \A j \in ItemRows(df[i].item_code) :
                  /\ df[j].promo_store_count = df[i].promo_store_count
                  /\ df[j].promo_coverage_pct = df[i].promo_coverage_pct

C14_Witness ==
    /\ HasColumn("promo_coverage_pct")
    /\ \E i, j \in 1..Len(df) :
        /\ df[i].is_promo /\ ~df[j].is_promo
        /\ df[i].item_code = df[j].item_code
        /\ df[j].store_name \notin PromoStores(df[i].item_code)
        /\ df[i].promo_store_count = Num(1) /\ df[j].promo_store_count = Num(1)
        /\ df[i].promo_coverage_pct = Num(50) /\ df[j].promo_coverage_pct = Num(50)

\* The dates of the item's rows with a positive RRP and a discount of at
\* least 10%.
PricedCandidateDates(item) ==
    {df[j].date_of_sale :
        j \in {k \in ItemRows(item) : Positive(df[k].rrp) /\ Candidate(df[k])}} \ {NaT}

\* C15: a row whose RRP is 0, negative or missing has discount_pct 0, is no
\* promo candidate and no promo row, and adds no date to the promo_days_count
\* of its item, whatever its unit_price.
C15_NoRrpNoPromo ==
    \A i \in 1..Len(df) :
        /\ ~Positive(df[i].rrp) =>
              /\ df[i].discount_pct = Num(0)
              /\ ~Candidate(df[i])
              /\ ~df[i].is_promo
        /\ df[i].promo_days_count
              = Num(Cardinality(PricedCandidateDates(df[i].item_code)))

C15_Witness ==
    \E i, j, k \in 1..Len(df) :
        /\ df[i].rrp = Num(0) /\ df[i].unit_price = Num(-8)
        /\ df[j].rrp = Num(-10) /\ df[j].unit_price = Num(8)
        /\ df[i].date_of_sale # df[k].date_of_sale
        /\ df[j].date_of_sale # df[k].date_of_sale
        /\ Candidate(df[k])
        /\ df[i].promo_days_count = Num(1)
        /\ df[i].discount_pct = Num(0) /\ df[j].discount_pct = Num(0)

EnrichmentFields ==
    {"discount_pct", "baseline_units", "promo_avg_units", "promo_uplift_pct",
     "group_avg_price", "price_index_vs_comp", "promo_store_count",
     "promo_coverage_pct"}

\* C16 as claimed: in the output of main every enrichment field is a defined
\* number on every row, also when quantity, total_sales or rrp is missing.
C16_NoUndefined ==
    \A k \in 1..Len(enriched) :
        \A i \in 1..Len(enriched[k]) :
            \A c \in EnrichmentFields : Defined(enriched[k][i][c])

BidcoLetters == <<{"b", "B"}, {"i", "I"}, {"d", "D"}, {"c", "C"}, {"o", "O"}>>

\* The supplier name s is there and holds the letters b, i, d, c, o in a row,
\* each in either case.
NamesBidco(s) ==
    /\ s # None
    /\ \E p \in 1..(Len(s) - 4) : \A k \in 1..5 : s[p + k - 1] \in BidcoLetters[k]

\* C17: is_bidco of a row holds iff its supplier name contains "bidco", case
\* ignored, both as cleaned and as staged; a row without supplier is not Bidco.
C17_IsBidco ==
    HasColumn("is_bidco") =>
        \A i \in 1..Len(df) :
            /\ df[i].is_bidco <=> NamesBidco(df[i].supplier)
            /\ df[i].is_bidco <=> NamesBidco(stg[i].supplier)
            /\ stg[i].supplier = None => ~df[i].is_bidco

C17_Witness ==
    /\ HasColumn("is_bidco")
    /\ \E i, j, k \in 1..Len(df) :
        /\ stg[i].supplier = BidcoAfrica /\ df[i].is_bidco
        /\ stg[j].supplier = Unilever /\ ~df[j].is_bidco
        /\ stg[k].supplier = None /\ ~df[k].is_bidco

\* C18: the output of main is that of detector, uplift, price index, coverage
\* in this order; uplift and coverage work on the is_promo of the detector;
\* with calculate_price_index moved to the first, the second or the last
\* position every field of every row has the same value.
C18_PriceIndexIndependent ==
    \A k \in 1..Len(enriched) :
        /\ enriched[k] = calculate_promo_coverage(calculate_price_index(
                             calculate_uplift(detect_promos(df_cleaned))))
        /\ \A i \in 1..Len(enriched[k]) :
              enriched[k][i].is_promo = detect_promos(df_cleaned)[i].is_promo
        /\ enriched[k] = calculate_promo_coverage(calculate_uplift(
                             detect_promos(calculate_price_index(df_cleaned))))
        /\ enriched[k] = calculate_promo_coverage(calculate_uplift(
                             calculate_price_index(detect_promos(df_cleaned))))
        /\ enriched[k] = calculate_price_index(calculate_promo_coverage(
                             calculate_uplift(detect_promos(df_cleaned))))

C18_Witness ==
    /\ Len(enriched) >= 1
    /\ \E i, j \in 1..Len(enriched[1]) :
        /\ enriched[1][i].is_promo /\ ~enriched[1][j].is_promo
        /\ enriched[1][i].promo_uplift_pct # Num(0)
        /\ enriched[1][i].price_index_vs_comp # Num(1)
        /\ enriched[1][i].promo_coverage_pct # Num(0)

\* Two one-word names are the same but for blanks and the case of letters.
SameName(s, t) ==
    upper(SelectSeq(s, LAMBDA c : c # " ")) = upper(SelectSeq(t, LAMBDA c : c # " "))

\* Two dates are the same day, or both are missing.
SameDay(d, e) == IF isnull(d) \/ isnull(e) THEN isnull(d) /\ isnull(e) ELSE d[1] = e[1]

\* Two rows are the same (store, item, date) observation.
SameSale(r, q) ==
    /\ SameName(r.store_name, q.store_name)
    /\ SameName(r.item_code, q.item_code)
    /\ SameDay(r.date_of_sale, q.date_of_sale)

\* The staged rows that no earlier staged row duplicates.
FirstSales == {p \in 1..Len(stg) : \A q \in 1..(p - 1) : ~SameSale(stg[q], stg[p])}

\* C19: after clean_data no two rows have the same cleaned (store_name,
\* item_code, date_of_sale); the rows kept are, in input order, the first
\* staged row of every such key.
C19_OneRowPerSale ==
    pc # "clean_data" =>
        /\ \A i, j \in 1..Len(df_cleaned) :
              i # j => key_of(df_cleaned[i], {"store_name", "item_code", "date_of_sale"})
                         # key_of(df_cleaned[j], {"store_name", "item_code", "date_of_sale"})
        /\ Len(df_cleaned) = Cardinality(FirstSales)
        /\ \A i \in 1..Len(df_cleaned) :
              /\ SameSale(df_cleaned[i], stg[Sorted(FirstSales)[i]])
              /\ df_cleaned[i].total_sales = stg[Sorted(FirstSales)[i]].total_sales

C19_Witness ==
    /\ pc # "clean_data"
    /\ Len(stg) = 3 /\ Len(df_cleaned) = 2
    /\ stg[1].store_name # stg[2].store_name
    /\ stg[1].item_code # stg[2].item_code
    /\ stg[1].total_sales # stg[2].total_sales
    /\ SameSale(stg[1], stg[2])
    /\ df_cleaned[1].total_sales = stg[1].total_sales
    /\ df_cleaned[2].date_of_sale = NaT

Negative(x) == x[2] > 0 /\ x[1] < 0

Blank(s) == \A k \in 1..Len(s) : s[k] = " "

\* |u - p| / p > 1/2 for a unit price u and a positive RRP p.
DeviatesByMoreThanHalf(u, p) ==
    /\ Defined(u) /\ Positive(p)
    /\ 2 * AbsInt(u[1] * p[2] - p[1] * u[2]) > p[1] * u[2]

\* The tier of the staged row r whose unit price is u.
Tier(r, u) ==
    IF \/ Negative(r.quantity) \/ Negative(r.total_sales)
       \/ Blank(r.store_name) \/ Blank(r.item_code) \/ r.date_of_sale = None
    THEN "low"
    ELSE IF ~Positive(r.rrp) \/ DeviatesByMoreThanHalf(u, r.rrp) THEN "medium"
    ELSE "high"

C21_ReturnsArePromoCandidates ==
    \A i \in 1..Len(df) :
        (Defined(df[i].quantity) /\ df[i].quantity[1] <= 0 /\ Positive(df[i].rrp)) =>
            /\ df[i].unit_price = Num(0)
            /\ df[i].discount_pct = Num(1)
            /\ Candidate(df[i])
            /\ df[i].date_of_sale \in CandidateDates(df[i].item_code)
            /\ df[i].promo_days_count
                  = Num(Cardinality(CandidateDates(df[i].item_code)))
            /\ df[i].is_promo <=> Cardinality(CandidateDates(df[i].item_code)) >= 2

C21_Witness ==
    \E i, j, k \in 1..Len(df) :
        /\ df[i].quantity = Num(-1) /\ df[i].rrp = Num(10) /\ df[i].is_promo
        /\ df[j].quantity = Num(0) /\ df[j].rrp = Num(10) /\ df[j].is_promo
        /\ df[i].date_of_sale # df[j].date_of_sale
        /\ ~Candidate(df[k])
        /\ df[i].promo_days_count = Num(2)

(***************************************************************************)
(* The loading stage.                                                      *)
(***************************************************************************)
\* The fact rows run i has added to the warehouse.
InsertedBy(i) == runs[i].fact_count - (IF i = 1 THEN 0 ELSE runs[i - 1].fact_count)

ResolvesAllKeys(r) ==
    ~isna(r.store_fk) /\ ~isna(r.supplier_fk) /\ ~isna(r.date_fk) /\ ~isna(r.item_fk)

\* C22: the dimensions being loaded first, every row of the enriched dataset
\* resolves its four foreign keys in load_fact_sales, and a run that no
\* database failure interrupts stores as many fact rows as the enriched
\* dataset has rows.
C22_EveryRowLoaded ==
    /\ \A i \in 1..Len(df) : "store_fk" \in DOMAIN df[i] => ResolvesAllKeys(df[i])
    /\ \A i \in 1..Len(runs) :
           runs[i].error # "OperationalError" => InsertedBy(i) = Len(df)

\* The steps of main in their order; "main" stands for its return.
StepOrder ==
    <<"get_connection", "load_dimension_stores", "load_dimension_suppliers",
      "load_dimension_dates", "load_dimension_items", "load_fact_sales",
      "summary", "main">>

Position(step) == CHOOSE k \in 1..Len(StepOrder) : StepOrder[k] = step

HasStores ==
    \A i \in 1..Len(df) : \E j \in 1..Len(dw.dim_store) :
        dw.dim_store[j].store_name = df[i].store_name

HasSuppliers ==
    \A i \in 1..Len(df) : \E j \in 1..Len(dw.dim_supplier) :
        dw.dim_supplier[j].supplier_name = df[i].supplier

HasDates ==
    \A i \in 1..Len(df) : \E j \in 1..Len(dw.dim_date) :
        dw.dim_date[j].full_date = df[i].date_of_sale[1]

HasItems ==
    \A i \in 1..Len(df) : \E j \in 1..Len(dw.dim_item) :
        dw.dim_item[j].item_code = df[i].item_code

\* The dimension loaders that ran before the step have their rows stored.
DimensionsInPlace(step) ==
    /\ Position("load_dimension_stores") < Position(step) => HasStores
    /\ Position("load_dimension_suppliers") < Position(step) => HasSuppliers
    /\ Position("load_dimension_dates") < Position(step) => HasDates
    /\ Position("load_dimension_items") < Position(step) => HasItems

\* Between two runs no connection is open and no transaction pending, and a
\* run has raised unless it reached the end of main.
ClosedOnEveryPath ==
    /\ pc \in {"done", "loaded"} => conn # "open" /\ tx = NoTx
    /\ \A i \in 1..Len(runs) : runs[i].error = "none" <=> runs[i].step = "main"

\* C23 as stated: every path of main closes the connection, a step that
\* raises is rolled back and its error reaches the caller, and a run that has
\* raised leaves the dimension rows of the steps before the failing one
\* stored and no fact row of its own.
C23_NoFactOfFailedRun ==
    /\ ClosedOnEveryPath
    /\ \A i \in 1..Len(runs) :
           runs[i].error # "none" =>
               DimensionsInPlace(runs[i].step) /\ InsertedBy(i) = 0

\* C23, amended: every path of main closes the connection, a step that
\* raises is rolled back and its error reaches the caller; a run that has
\* raised in or before load_fact_sales leaves the dimension rows of the steps
\* before the failing one stored and no fact row of its own, and a run that
\* has raised in the summary queries after load_fact_sales leaves all its
\* fact rows stored as well.
C23_NoFactUnlessCommitted ==
    /\ ClosedOnEveryPath
    /\ \A i \in 1..Len(runs) :
           runs[i].error # "none" =>
               /\ DimensionsInPlace(runs[i].step)
               /\ InsertedBy(i) = IF runs[i].step = "summary" THEN Len(df) ELSE 0

\* The fact insert of a run has failed: the connection is closed, the four
\* dimensions hold the rows of the dataset, the fact table none.
C23_Witness ==
    /\ pc \in {"done", "loaded"}
    /\ Len(runs) = 1
    /\ runs[1].step = "load_fact_sales"
    /\ runs[1].error = "OperationalError"
    /\ conn = "closed"
    /\ Len(df) = 2
    /\ HasStores /\ HasSuppliers /\ HasDates /\ HasItems
    /\ dw.fact_sales_enriched = <<>>

OnePerKey(table, key) ==
    \A i, j \in 1..Len(table) : table[i][key] = table[j][key] => i = j

IsPrefix(a, b) == Len(a) <= Len(b) /\ SubSeq(b, 1, Len(a)) = a

\* The fact row f is a copy of the enriched row r: it carries the ids the
\* dimensions give to the store, item, supplier and date of r, and its amounts.
IsCopy(f, r) ==
    /\ IsFinite(r.quantity)
    /\ \E k \in 1..Len(dw.dim_store) :
           /\ dw.dim_store[k].store_name = r.store_name
           /\ f.store_id = dw.dim_store[k].store_id
    /\ \E k \in 1..Len(dw.dim_item) :
           /\ dw.dim_item[k].item_code = r.item_code
           /\ f.item_id = dw.dim_item[k].item_id
    /\ \E k \in 1..Len(dw.dim_supplier) :
           /\ dw.dim_supplier[k].supplier_name = r.supplier
           /\ f.supplier_id = dw.dim_supplier[k].supplier_id
    /\ \E k \in 1..Len(dw.dim_date) :
           /\ dw.dim_date[k].full_date = r.date_of_sale[1]
           /\ f.date_id = dw.dim_date[k].date_id
    /\ f.quantity = int(r.quantity)
    /\ f.total_sales = r.total_sales
    /\ f.rrp = r.rrp
    /\ f.unit_price = r.unit_price
    /\ f.is_promo = r.is_promo
    /\ f.data_quality_flag = r.data_quality_flag

Copies(r) ==
    Cardinality({k \in 1..Len(dw.fact_sales_enriched) :
                    IsCopy(dw.fact_sales_enriched[k], r)})

\* The runs in which load_fact_sales has committed.
Completed == Cardinality({i \in 1..Len(runs) : runs[i].step \in {"summary", "main"}})

HoldsSheet ==
    /\ Len(stg) = Len(xlsx)
    /\ \A i \in 1..Len(stg) :
           /\ DOMAIN stg[i] = {"store_name", "item_code", "sub_department", "section",
                               "quantity", "total_sales", "rrp", "supplier",
                               "date_of_sale"}
           /\ stg[i].store_name = xlsx[i]["Store Name"]
           /\ stg[i].item_code = xlsx[i]["Item_Code"]
           /\ stg[i].sub_department = xlsx[i]["Sub-Department"]
           /\ stg[i].section = xlsx[i]["Section"]
           /\ stg[i].quantity = xlsx[i]["Quantity"]
           /\ stg[i].total_sales = xlsx[i]["Total Sales"]
           /\ stg[i].rrp = xlsx[i]["RRP"]
           /\ stg[i].supplier = xlsx[i]["Supplier"]
           /\ stg[i].date_of_sale =
                  IF xlsx[i]["Date Of Sale"] \in {Day1, Day2}
                  THEN <<xlsx[i]["Date Of Sale"][1], "00:00:00">>
                  ELSE None

\* C25: the staging table is empty when the insert starts; after a run whose
\* insert was committed it holds exactly the rows of the sheet that run read;
\* after a run whose insert failed it is empty, the error has reached the
\* caller and the connection is closed, as it is after a run without error.
C25_StagingReplaced ==
    /\ pc = "insert" => stg = <<>>
    /\ pc = "verify" => HoldsSheet
    /\ (pc \in {"load_excel_to_staging", "ingested"} /\ runs # <<>>) =>
           LET last == runs[Len(runs)]
           IN  /\ last.step \in {"load_excel_to_staging", "verify"} => HoldsSheet
               /\ last.step = "load_excel_to_staging" =>
                      last.error = "none" /\ conn = "closed"
               /\ last.step = "insert" =>
                      stg = <<>> /\ last.error # "none" /\ conn = "closed"

\* A first run has stored its sheet, and the insert of the second run, of a
\* sheet of two rows, has failed: the table is empty.
C25_Witness ==
    /\ pc = "ingested"
    /\ Len(runs) = 2
    /\ runs[1].step = "load_excel_to_staging"
    /\ runs[2].step = "insert"
    /\ Len(xlsx) = 2
    /\ stg = <<>>
    /\ conn = "closed"

====
